---- MODULE Spec2Model ----
(***************************************************************************)
(* SAYSO backend (src/server.js, session variant with socket.io).          *)
(*                                                                         *)
(* The model covers the presence directory `onlineUsers` (a JavaScript Map *)
(* from user identity to socket id), the three transport handlers that     *)
(* touch it (connection, 'register', 'disconnect') and the two request     *)
(* handlers that read it to emit a 'notification' event: POST              *)
(* /api/posts/:id/like and POST /api/posts/:id/comments.  It also covers   *)
(* the middleware isAuth and the routes that update or delete a post or a  *)
(* comment (PUT and DELETE /api/posts/:id, PUT and DELETE                  *)
(* /api/comments/:id).  The tables are independent of each other: a call   *)
(* on one table succeeds or fails on its own.                              *)
(*                                                                         *)
(* The handlers run on one event loop.  A transport handler has no await   *)
(* and is one step.  A request handler is cut at its awaits: a step is the *)
(* awaited database call taking effect together with the code that runs on *)
(* its result, up to the next await.  A database call may fail; supabase   *)
(* then resolves to { data: null, error } and nothing is thrown.           *)
(*                                                                         *)
(* The transport events (connection, 'register', disconnect) are inputs:   *)
(* the model takes them as socket.io hands them to the handlers of lines   *)
(* 155-171, whatever server the process listens on (line 605 starts        *)
(* app.listen, not the httpServer that io is attached to).                 *)
(***************************************************************************)
EXTENDS Integers, Sequences, FiniteSets, TLC

(***************************************************************************)
(* Bounds of the model.                                                    *)
(***************************************************************************)
MaxUsers == 2
MaxSockets == 2
MaxPosts == 1
MaxReqs == 2
MaxObjects == 2
MaxTexts == 2
MaxComments == 2

UserIds == 1..MaxUsers
SocketIds == 1..MaxSockets
PostIds == 1..MaxPosts
ReqIds == 1..MaxReqs

\* `undefined`, the result of Map.prototype.get on a missing key
Undefined == 0
\* the row `null` that .single() yields when no row matches
Null == [null |-> TRUE]
\* a post id for which blog_posts holds no row
NoSuchPost == 0

\* req.user of a request without a session
Anonymous == 0

VARIABLES
  onlineUsers,   \* the Map of line 153, as its sequence of entries
  sockets,       \* socket id -> "unborn" | "open" | "closed"
  blog_posts,    \* table blog_posts: post id -> row or Null
  likes,         \* table likes: <<post_id, user_id>> -> number of rows
  comments,      \* table comments: the rows, in insertion order
  reqs,          \* the HTTP requests: parameters, position, locals, response
  emitted,       \* the io.to(id).emit("notification", payload) calls so far
  hist,          \* history of the transport events
  heap           \* number of message payloads parsed into a fresh object

dirVars == <<onlineUsers, sockets, hist, heap>>
dbVars == <<blog_posts, likes, comments>>
vars == <<onlineUsers, sockets, blog_posts, likes, comments, reqs, emitted, hist, heap>>

(***************************************************************************)
(* The payload of a 'register' message is whatever the client sent.  A     *)
(* user id is the number itself.  An object { userId: u } is a fresh       *)
(* object each time a message is parsed; it is written as a number above   *)
(* every user id that tells the n-th object from all others, because a Map *)
(* compares object keys by identity, and that keeps the field u.           *)
(***************************************************************************)
ObjectPayload(n, u) == n * (MaxUsers + 1) + u

IsObject(payload) == payload > MaxUsers

\* payload.userId
UserIdField(payload) == payload % (MaxUsers + 1)

(***************************************************************************)
(* The JavaScript Map.  A Map iterates in insertion order and `set` on an  *)
(* existing key keeps the key's position, so the Map is a sequence of      *)
(* entries with pairwise distinct keys.                                    *)
(***************************************************************************)
MapIndex(m, k) ==
  IF \E i \in 1..Len(m) : m[i].userId = k
    THEN CHOOSE i \in 1..Len(m) : m[i].userId = k
    ELSE 0

MapGet(m, k) ==
  IF MapIndex(m, k) = 0 THEN Undefined ELSE m[MapIndex(m, k)].socketId

\* a `set` that leaves an existing entry as it is
MapSetKeepsExisting(m, k, v) ==
  IF MapIndex(m, k) = 0
    THEN Append(m, [userId |-> k, socketId |-> v])
    ELSE m

\* a `set` that adds an entry without looking for the key
MapSetAlwaysAppends(m, k, v) == Append(m, [userId |-> k, socketId |-> v])

MapSet(m, k, v) ==
  IF MapIndex(m, k) = 0
    THEN Append(m, [userId |-> k, socketId |-> v])
    ELSE [m EXCEPT ![MapIndex(m, k)].socketId = v]

MapDelete(m, k) ==
  IF MapIndex(m, k) = 0
    THEN m
    ELSE SubSeq(m, 1, MapIndex(m, k) - 1) \o SubSeq(m, MapIndex(m, k) + 1, Len(m))

\* the scan with its comparison inverted (socketId !== socket.id)
FirstEntryNotOf(m, sid) ==
  IF \E i \in 1..Len(m) : m[i].socketId # sid
    THEN CHOOSE i \in 1..Len(m) :
           /\ m[i].socketId # sid
           /\ \A j \in 1..(i - 1) : m[j].socketId = sid
    ELSE 0

\* index of the first entry, in iteration order, whose value is sid (0: none)
FirstEntryOf(m, sid) ==
  IF \E i \in 1..Len(m) : m[i].socketId = sid
    THEN CHOOSE i \in 1..Len(m) :
           /\ m[i].socketId = sid
           /\ \A j \in 1..(i - 1) : m[j].socketId # sid
    ELSE 0

\* the loop without its comparison: the first entry goes, whatever its value
RemoveFirstEntry(m, sid) ==
  IF Len(m) = 0 THEN m ELSE MapDelete(m, m[1].userId)

\* the loop of the 'disconnect' handler: delete the first match, then break
RemoveByConnection(m, sid) ==
  IF FirstEntryOf(m, sid) = 0 THEN m ELSE MapDelete(m, m[FirstEntryOf(m, sid)].userId)

\* the set of socket ids held by the directory
Handles(m) == {m[i].socketId : i \in 1..Len(m)}

\* the socket id the directory holds for user u, Undefined if none
EntryOf(m, u) ==
  IF \E i \in 1..Len(m) : m[i].userId = u
    THEN (CHOOSE e \in {m[i] : i \in 1..Len(m)} : e.userId = u).socketId
    ELSE Undefined

(***************************************************************************)
(* History of the transport events, kept for stating the directory         *)
(* properties: the socket of the most recent 'register' of each user, the  *)
(* <<user, socket>> pairs registered so far, the last event, and the       *)
(* directory as it was before the last event.  A behaviour that starts     *)
(* with hist = NoHistory records nothing.                                  *)
(***************************************************************************)
NoHistory == [lastEvent |-> "untracked"]

NoEvent == [type |-> "none", socketId |-> 0, userId |-> 0]

HistInit ==
  [lastRegister |-> [u \in UserIds |-> Undefined],
   registered |-> {},
   lastEvent |-> NoEvent,
   before |-> <<>>]

Record(h, ev, m) ==
  IF h = NoHistory
    THEN NoHistory
    ELSE [lastRegister |-> IF ev.type = "register" /\ ev.userId \in UserIds
                             THEN [h.lastRegister EXCEPT ![ev.userId] = ev.socketId]
                             ELSE h.lastRegister,
          registered |-> IF ev.type = "register"
                           THEN h.registered \cup {<<ev.userId, ev.socketId>>}
                           ELSE h.registered,
          lastEvent |-> ev,
          before |-> m]

(***************************************************************************)
(* Transport handlers.                                                     *)
(***************************************************************************)
\* the connection handler entering the socket for a user by itself
ConnectionRegisters(s) ==
  /\ sockets[s] = "unborn"
  /\ \A t \in SocketIds : t < s => sockets[t] # "unborn"
  /\ sockets' = [sockets EXCEPT ![s] = "open"]
  /\ onlineUsers' = MapSet(onlineUsers, ((s - 1) % MaxUsers) + 1, s)
  /\ hist' = Record(hist, [type |-> "connection", socketId |-> s, userId |-> 0], onlineUsers)
  /\ UNCHANGED <<heap, dbVars, reqs, emitted>>

\* socket.io gives every connection a fresh id; ids are taken in order
Connection(s) ==
  /\ sockets[s] = "unborn"
  /\ \A t \in SocketIds : t < s => sockets[t] # "unborn"
  /\ sockets' = [sockets EXCEPT ![s] = "open"]
  /\ hist' = Record(hist, [type |-> "connection", socketId |-> s, userId |-> 0], onlineUsers)
  /\ UNCHANGED <<onlineUsers, heap, dbVars, reqs, emitted>>

\* the handler destructuring its argument: ({ userId }) => ...
RegisterDestructures(s, userId) ==
  /\ sockets[s] = "open"
  /\ onlineUsers' = MapSet(onlineUsers,
                           IF IsObject(userId) THEN UserIdField(userId) ELSE Undefined, s)
  /\ heap' = IF IsObject(userId) THEN heap + 1 ELSE heap
  /\ hist' = Record(hist, [type |-> "register", socketId |-> s, userId |-> userId], onlineUsers)
  /\ UNCHANGED <<sockets, dbVars, reqs, emitted>>

\* the payload `userId` is the key as it is, whatever its shape
Register(s, userId) ==
  /\ sockets[s] = "open"
  /\ onlineUsers' = MapSet(onlineUsers, userId, s)
  /\ heap' = IF IsObject(userId) THEN heap + 1 ELSE heap
  /\ hist' = Record(hist, [type |-> "register", socketId |-> s, userId |-> userId], onlineUsers)
  /\ UNCHANGED <<sockets, dbVars, reqs, emitted>>

Disconnect(s) ==
  /\ sockets[s] = "open"
  /\ onlineUsers' = RemoveByConnection(onlineUsers, s)
  /\ sockets' = [sockets EXCEPT ![s] = "closed"]
  /\ hist' = Record(hist, [type |-> "disconnect", socketId |-> s, userId |-> 0], onlineUsers)
  /\ UNCHANGED <<heap, dbVars, reqs, emitted>>

(***************************************************************************)
(* The database behind supabase, as far as the two handlers use it.        *)
(* A call that fails returns { data: null, error }; it does not throw.     *)
(***************************************************************************)
\* the owner of the post p that exists when the server starts
PostOwner(p) == ((p - 1) % MaxUsers) + 1

\* rpc("increment_like_count", { p_id }), when the call succeeds
increment_like_count(posts, p) ==
  IF posts[p] = Null THEN posts
  ELSE [posts EXCEPT ![p].like_count = posts[p].like_count + 1]

\* rpc("decrement_like_count", { p_id }), when the call succeeds
decrement_like_count(posts, p) ==
  IF posts[p] = Null THEN posts
  ELSE [posts EXCEPT ![p].like_count = posts[p].like_count - 1]

\* rpc("increment_comment_count", { p_id }), when the call succeeds
increment_comment_count(posts, p) ==
  IF posts[p] = Null THEN posts
  ELSE [posts EXCEPT ![p].comment_count = posts[p].comment_count + 1]

\* from("blog_posts").select(...).eq("id", p).single()
SelectPost(posts, p, ok) ==
  IF ok /\ p \in PostIds THEN posts[p] ELSE Null

\* rpc("decrement_comment_count", { p_id }), when the call succeeds
decrement_comment_count(posts, p) ==
  IF p \notin PostIds \/ posts[p] = Null THEN posts
  ELSE [posts EXCEPT ![p].comment_count = posts[p].comment_count - 1]

\* from("comments").select("*").eq("id", c).single(); the id of a comment is
\* its place in the order of insertion, a deleted row leaves Null behind
SelectComment(cm, c, ok) ==
  IF ok /\ c \in 1..Len(cm) THEN cm[c] ELSE Null

\* from("likes").delete().eq("post_id", p)
DeleteLikesOf(lk, p) ==
  [k \in DOMAIN lk |-> IF k[1] = p THEN 0 ELSE lk[k]]

\* from("comments").delete().eq("post_id", p)
DeleteCommentsOf(cm, p) ==
  [c \in 1..Len(cm) |-> IF cm[c] # Null /\ cm[c].post_id = p THEN Null ELSE cm[c]]

\* from("likes").select("*").eq("post_id", p).eq("user_id", u).single():
\* a row only when exactly one row matches
SelectLike(lk, p, u, ok) == ok /\ lk[<<p, u>>] = 1

(***************************************************************************)
(* Requests.                                                               *)
(***************************************************************************)
NoSuchComment == 0

\* the texts a request body can carry; Undefined stands for a missing field
Texts == 1..MaxTexts

\* the middleware isAuth: TRUE when it calls next(), FALSE when it answers 401
isAuthAlwaysNext(user) == TRUE

isAuth(user) == user # Anonymous

NoResponse == [status |-> 0, body |-> "none"]

Response(status, body) == [status |-> status, body |-> body]

\* `entry`, `moved`, `row` and `rpc` record, for stating the properties,
\* what the request met: the directory entry of the post's owner when the
\* row was written and then when the handler reached its end, whether the
\* two differ, what became of its row ("inserted", "deleted") and of its
\* counter rpc ("ok", "failed")
NotReached == -1

IdleReq ==
  [route |-> "none", user |-> Anonymous, post_id |-> NoSuchPost,
   comment_id |-> NoSuchComment, title |-> Undefined, content |-> Undefined,
   pc |-> "idle", post |-> Undefined, res |-> NoResponse,
   entry |-> NotReached, moved |-> FALSE, row |-> "none", rpc |-> "none"]

Finish(q, res) == [q EXCEPT !.pc = "done", !.res = res]

\* the block looking up the acting user instead of the post's owner
NotifySender(calls, m, r, owner, user, text, type, post_id) ==
  IF owner # user
    THEN LET receiverSocketId == MapGet(m, user)
         IN  IF receiverSocketId # Undefined
               THEN Append(calls,
                      [to |-> receiverSocketId,
                       event |-> "notification",
                       payload |-> [message |-> <<user, text>>,
                                    type |-> type,
                                    postId |-> post_id],
                       req |-> r])
               ELSE calls
    ELSE calls

\* the block without `if (receiverSocketId)`
NotifyUnchecked(calls, m, r, owner, user, text, type, post_id) ==
  IF owner # user
    THEN Append(calls,
           [to |-> MapGet(m, owner),
            event |-> "notification",
            payload |-> [message |-> <<user, text>>,
                         type |-> type,
                         postId |-> post_id],
            req |-> r])
    ELSE calls

\* the block without `if (post.user_id !== user_id)`
NotifySelf(calls, m, r, owner, user, text, type, post_id) ==
  LET receiverSocketId == MapGet(m, owner)
  IN  IF receiverSocketId # Undefined
        THEN Append(calls,
               [to |-> receiverSocketId,
                event |-> "notification",
                payload |-> [message |-> <<user, text>>,
                             type |-> type,
                             postId |-> post_id],
                req |-> r])
        ELSE calls

\* the notification block of both handlers: the calls emitted after it
Notify(calls, m, r, owner, user, text, type, post_id) ==
  IF owner # user
    THEN LET receiverSocketId == MapGet(m, owner)
         IN  IF receiverSocketId # Undefined
               THEN Append(calls,
                      [to |-> receiverSocketId,
                       event |-> "notification",
                       payload |-> [message |-> <<user, text>>,
                                    type |-> type,
                                    postId |-> post_id],
                       req |-> r])
               ELSE calls
    ELSE calls

\* requests take the slots in order
CanStart(r) ==
  /\ reqs[r].pc = "idle"
  /\ \A t \in ReqIds : t < r => reqs[t].pc # "idle"

(***************************************************************************)
(* POST /api/posts/:id/like                                                *)
(***************************************************************************)
\* isAuth, then the handler up to its first await
StartLike(r, user, post_id) ==
  /\ CanStart(r)
  /\ LET q == [IdleReq EXCEPT !.route = "like", !.user = user, !.post_id = post_id]
     IN  reqs' = [reqs EXCEPT ![r] =
           IF ~isAuth(user)
             THEN Finish(q, Response(401, "Unauthorized"))
             ELSE [q EXCEPT !.pc = "selectPost"]]
  /\ UNCHANGED <<dirVars, dbVars, emitted>>

LikeSelectPost(r, ok) ==
  /\ reqs[r].route = "like" /\ reqs[r].pc = "selectPost"
  /\ LET post == SelectPost(blog_posts, reqs[r].post_id, ok)
     IN  reqs' = [reqs EXCEPT ![r] =
           IF post = Null
             THEN Finish(@, Response(404, "Post not found"))
             ELSE [@ EXCEPT !.pc = "selectLike", !.post = post.user_id]]
  /\ UNCHANGED <<dirVars, dbVars, emitted>>

LikeSelectLike(r, ok) ==
  /\ reqs[r].route = "like" /\ reqs[r].pc = "selectLike"
  /\ LET existingLike == SelectLike(likes, reqs[r].post_id, reqs[r].user, ok)
     IN  reqs' = [reqs EXCEPT ![r].pc = IF existingLike THEN "deleteLike" ELSE "insertLike"]
  /\ UNCHANGED <<dirVars, dbVars, emitted>>

LikeDelete(r, ok) ==
  /\ reqs[r].route = "like" /\ reqs[r].pc = "deleteLike"
  /\ IF ok
       THEN /\ likes' = [likes EXCEPT ![<<reqs[r].post_id, reqs[r].user>>] = 0]
            /\ reqs' = [reqs EXCEPT ![r].pc = "decrement", ![r].row = "deleted",
                 ![r].entry = EntryOf(onlineUsers, PostOwner(reqs[r].post_id))]
       ELSE /\ reqs' = [reqs EXCEPT ![r] = Finish(@, Response(500, "Failed to unlike post"))]
            /\ UNCHANGED likes
  /\ UNCHANGED <<dirVars, blog_posts, comments, emitted>>

\* the unlike branch with the notification block of the like branch
LikeDecrementNotifies(r, ok) ==
  /\ reqs[r].route = "like" /\ reqs[r].pc = "decrement"
  /\ blog_posts' = IF ok THEN decrement_like_count(blog_posts, reqs[r].post_id) ELSE blog_posts
  /\ emitted' = Notify(emitted, onlineUsers, r, reqs[r].post, reqs[r].user,
                       "liked your post", "like", reqs[r].post_id)
  /\ reqs' = [reqs EXCEPT ![r] =
       Finish([@ EXCEPT !.rpc = IF ok THEN "ok" ELSE "failed",
                        !.entry = EntryOf(onlineUsers, PostOwner(reqs[r].post_id))],
              Response(200, "liked: false"))]
  /\ UNCHANGED <<dirVars, likes, comments>>

\* the rpc, then the response: the unlike branch has no notification block
LikeDecrement(r, ok) ==
  /\ reqs[r].route = "like" /\ reqs[r].pc = "decrement"
  /\ blog_posts' = IF ok THEN decrement_like_count(blog_posts, reqs[r].post_id) ELSE blog_posts
  /\ reqs' = [reqs EXCEPT ![r] =
       Finish([@ EXCEPT !.rpc = IF ok THEN "ok" ELSE "failed",
                        !.entry = EntryOf(onlineUsers, PostOwner(reqs[r].post_id))],
              Response(200, "liked: false"))]
  /\ UNCHANGED <<dirVars, likes, comments, emitted>>

LikeInsert(r, ok) ==
  /\ reqs[r].route = "like" /\ reqs[r].pc = "insertLike"
  /\ IF ok
       THEN /\ likes' = [likes EXCEPT ![<<reqs[r].post_id, reqs[r].user>>] = @ + 1]
            /\ reqs' = [reqs EXCEPT ![r].pc = "increment", ![r].row = "inserted",
                 ![r].entry = EntryOf(onlineUsers, PostOwner(reqs[r].post_id))]
       ELSE /\ reqs' = [reqs EXCEPT ![r] = Finish(@, Response(500, "Failed to like post"))]
            /\ UNCHANGED likes
  /\ UNCHANGED <<dirVars, blog_posts, comments, emitted>>

\* the lookup made before `await supabase.rpc(...)`, the emit after it
LikeIncrementEarlyLookup(r, ok) ==
  /\ reqs[r].route = "like" /\ reqs[r].pc = "increment"
  /\ blog_posts' = IF ok THEN increment_like_count(blog_posts, reqs[r].post_id) ELSE blog_posts
  /\ emitted' =
       IF reqs[r].post # reqs[r].user /\ reqs[r].entry # Undefined
         THEN Append(emitted,
                [to |-> reqs[r].entry,
                 event |-> "notification",
                 payload |-> [message |-> <<reqs[r].user, "liked your post">>,
                              type |-> "like",
                              postId |-> reqs[r].post_id],
                 req |-> r])
         ELSE emitted
  /\ reqs' = [reqs EXCEPT ![r] =
       Finish([@ EXCEPT !.rpc = IF ok THEN "ok" ELSE "failed",
                        !.entry = EntryOf(onlineUsers, PostOwner(reqs[r].post_id)),
                        !.moved = (reqs[r].entry #
                                     EntryOf(onlineUsers, PostOwner(reqs[r].post_id)))],
              Response(200, "liked: true"))]
  /\ UNCHANGED <<dirVars, likes, comments>>

\* the handler reporting a receiver that is gone as a failure of the request
LikeIncrementReportsStale(r, ok) ==
  /\ reqs[r].route = "like" /\ reqs[r].pc = "increment"
  /\ blog_posts' = IF ok THEN increment_like_count(blog_posts, reqs[r].post_id) ELSE blog_posts
  /\ emitted' = Notify(emitted, onlineUsers, r, reqs[r].post, reqs[r].user,
                       "liked your post", "like", reqs[r].post_id)
  /\ reqs' = [reqs EXCEPT ![r] =
       Finish([@ EXCEPT !.rpc = IF ok THEN "ok" ELSE "failed",
                        !.entry = EntryOf(onlineUsers, PostOwner(reqs[r].post_id)),
                        !.moved = (reqs[r].entry #
                                     EntryOf(onlineUsers, PostOwner(reqs[r].post_id)))],
              IF /\ reqs[r].post # reqs[r].user
                 /\ MapGet(onlineUsers, reqs[r].post) # Undefined
                 /\ sockets[MapGet(onlineUsers, reqs[r].post)] = "closed"
                THEN Response(500, "Failed to notify")
                ELSE Response(200, "liked: true"))]
  /\ UNCHANGED <<dirVars, likes, comments>>

\* the rpc, then the notification block and the response, with no await between
LikeIncrement(r, ok) ==
  /\ reqs[r].route = "like" /\ reqs[r].pc = "increment"
  /\ blog_posts' = IF ok THEN increment_like_count(blog_posts, reqs[r].post_id) ELSE blog_posts
  /\ emitted' = Notify(emitted, onlineUsers, r, reqs[r].post, reqs[r].user,
                       "liked your post", "like", reqs[r].post_id)
  /\ reqs' = [reqs EXCEPT ![r] =
       Finish([@ EXCEPT !.rpc = IF ok THEN "ok" ELSE "failed",
                        !.entry = EntryOf(onlineUsers, PostOwner(reqs[r].post_id)),
                        !.moved = (reqs[r].entry #
                                     EntryOf(onlineUsers, PostOwner(reqs[r].post_id)))],
              Response(200, "liked: true"))]
  /\ UNCHANGED <<dirVars, likes, comments>>

(***************************************************************************)
(* POST /api/posts/:id/comments                                            *)
(***************************************************************************)
StartComment(r, user, post_id, content) ==
  /\ CanStart(r)
  /\ LET q == [IdleReq EXCEPT !.route = "comment", !.user = user,
                               !.post_id = post_id, !.content = content]
     IN  reqs' = [reqs EXCEPT ![r] =
           IF ~isAuth(user)
             THEN Finish(q, Response(401, "Unauthorized"))
             ELSE IF content = Undefined
               THEN Finish(q, Response(400, "Content is required"))
               ELSE [q EXCEPT !.pc = "selectPost"]]
  /\ UNCHANGED <<dirVars, dbVars, emitted>>

CommentSelectPost(r, ok) ==
  /\ reqs[r].route = "comment" /\ reqs[r].pc = "selectPost"
  /\ LET post == SelectPost(blog_posts, reqs[r].post_id, ok)
     IN  reqs' = [reqs EXCEPT ![r] =
           IF post = Null
             THEN Finish(@, Response(404, "Post not found"))
             ELSE [@ EXCEPT !.pc = "insertComment", !.post = post.user_id]]
  /\ UNCHANGED <<dirVars, dbVars, emitted>>

CommentInsert(r, ok) ==
  /\ reqs[r].route = "comment" /\ reqs[r].pc = "insertComment"
  /\ IF ok
       THEN /\ comments' = Append(comments,
                 [post_id |-> reqs[r].post_id, user_id |-> reqs[r].user,
                  content |-> reqs[r].content])
            /\ reqs' = [reqs EXCEPT ![r].pc = "increment", ![r].row = "inserted",
                 ![r].entry = EntryOf(onlineUsers, PostOwner(reqs[r].post_id))]
       ELSE /\ reqs' = [reqs EXCEPT ![r] = Finish(@, Response(500, "Failed to add comment"))]
            /\ UNCHANGED comments
  /\ UNCHANGED <<dirVars, blog_posts, likes, emitted>>

CommentIncrement(r, ok) ==
  /\ reqs[r].route = "comment" /\ reqs[r].pc = "increment"
  /\ blog_posts' = IF ok THEN increment_comment_count(blog_posts, reqs[r].post_id) ELSE blog_posts
  /\ emitted' = Notify(emitted, onlineUsers, r, reqs[r].post, reqs[r].user,
                       "commented on your post", "comment", reqs[r].post_id)
  /\ reqs' = [reqs EXCEPT ![r] =
       Finish([@ EXCEPT !.rpc = IF ok THEN "ok" ELSE "failed",
                        !.entry = EntryOf(onlineUsers, PostOwner(reqs[r].post_id)),
                        !.moved = (reqs[r].entry #
                                     EntryOf(onlineUsers, PostOwner(reqs[r].post_id)))],
              Response(200, "comment"))]
  /\ UNCHANGED <<dirVars, likes, comments>>

(***************************************************************************)
(* PUT /api/posts/:id                                                      *)
(***************************************************************************)
StartPutPost(r, user, post_id, title) ==
  /\ CanStart(r)
  /\ LET q == [IdleReq EXCEPT !.route = "putPost", !.user = user,
                               !.post_id = post_id, !.title = title]
     IN  reqs' = [reqs EXCEPT ![r] =
           IF ~isAuth(user)
             THEN Finish(q, Response(401, "Unauthorized"))
             ELSE [q EXCEPT !.pc = "selectPost"]]
  /\ UNCHANGED <<dirVars, dbVars, emitted>>

\* the handler without its check of the owner
PutPostSelectUnchecked(r, ok) ==
  /\ reqs[r].route = "putPost" /\ reqs[r].pc = "selectPost"
  /\ LET existingPost == SelectPost(blog_posts, reqs[r].post_id, ok)
     IN  reqs' = [reqs EXCEPT ![r] =
           IF existingPost = Null
             THEN Finish(@, Response(404, "Post not found"))
             ELSE [@ EXCEPT !.pc = "update", !.post = existingPost.user_id]]
  /\ UNCHANGED <<dirVars, dbVars, emitted>>

PutPostSelect(r, ok) ==
  /\ reqs[r].route = "putPost" /\ reqs[r].pc = "selectPost"
  /\ LET existingPost == SelectPost(blog_posts, reqs[r].post_id, ok)
     IN  reqs' = [reqs EXCEPT ![r] =
           IF existingPost = Null
             THEN Finish(@, Response(404, "Post not found"))
             ELSE IF existingPost.user_id # reqs[r].user
               THEN Finish(@, Response(403, "Forbidden"))
               ELSE [@ EXCEPT !.pc = "update", !.post = existingPost.user_id]]
  /\ UNCHANGED <<dirVars, dbVars, emitted>>

\* update(updateData).eq("id", id).select().single() has an error when no
\* row is left to update
PutPostUpdate(r, ok) ==
  /\ reqs[r].route = "putPost" /\ reqs[r].pc = "update"
  /\ LET id == reqs[r].post_id
     IN  IF ok /\ blog_posts[id] # Null
           THEN /\ blog_posts' = IF reqs[r].title # Undefined
                                   THEN [blog_posts EXCEPT ![id].title = reqs[r].title]
                                   ELSE blog_posts
                /\ reqs' = [reqs EXCEPT ![r] =
                     Finish([@ EXCEPT !.row = "updated"], Response(200, "post"))]
           ELSE /\ reqs' = [reqs EXCEPT ![r] = Finish(@, Response(500, "Update failed"))]
                /\ UNCHANGED blog_posts
  /\ UNCHANGED <<dirVars, likes, comments, emitted>>

(***************************************************************************)
(* DELETE /api/posts/:id                                                   *)
(***************************************************************************)
StartDeletePost(r, user, post_id) ==
  /\ CanStart(r)
  /\ LET q == [IdleReq EXCEPT !.route = "deletePost", !.user = user, !.post_id = post_id]
     IN  reqs' = [reqs EXCEPT ![r] =
           IF ~isAuth(user)
             THEN Finish(q, Response(401, "Unauthorized"))
             ELSE [q EXCEPT !.pc = "selectPost"]]
  /\ UNCHANGED <<dirVars, dbVars, emitted>>

DeletePostSelect(r, ok) ==
  /\ reqs[r].route = "deletePost" /\ reqs[r].pc = "selectPost"
  /\ LET post == SelectPost(blog_posts, reqs[r].post_id, ok)
     IN  reqs' = [reqs EXCEPT ![r] =
           IF post = Null
             THEN Finish(@, Response(404, "Post not found"))
             ELSE IF post.user_id # reqs[r].user
               THEN Finish(@, Response(403, "Forbidden"))
               ELSE [@ EXCEPT !.pc = "deleteLikes", !.post = post.user_id]]
  /\ UNCHANGED <<dirVars, dbVars, emitted>>

\* the result of the two deletes of the related rows is not looked at
DeletePostLikes(r, ok) ==
  /\ reqs[r].route = "deletePost" /\ reqs[r].pc = "deleteLikes"
  /\ likes' = IF ok THEN DeleteLikesOf(likes, reqs[r].post_id) ELSE likes
  /\ reqs' = [reqs EXCEPT ![r].pc = "deleteComments"]
  /\ UNCHANGED <<dirVars, blog_posts, comments, emitted>>

DeletePostComments(r, ok) ==
  /\ reqs[r].route = "deletePost" /\ reqs[r].pc = "deleteComments"
  /\ comments' = IF ok THEN DeleteCommentsOf(comments, reqs[r].post_id) ELSE comments
  /\ reqs' = [reqs EXCEPT ![r].pc = "deletePost"]
  /\ UNCHANGED <<dirVars, blog_posts, likes, emitted>>

DeletePostRow(r, ok) ==
  /\ reqs[r].route = "deletePost" /\ reqs[r].pc = "deletePost"
  /\ IF ok
       THEN /\ blog_posts' = [blog_posts EXCEPT ![reqs[r].post_id] = Null]
            /\ reqs' = [reqs EXCEPT ![r] =
                 Finish([@ EXCEPT !.row = "deleted"], Response(200, "Post deleted"))]
       ELSE /\ reqs' = [reqs EXCEPT ![r] = Finish(@, Response(500, "Delete failed"))]
            /\ UNCHANGED blog_posts
  /\ UNCHANGED <<dirVars, likes, comments, emitted>>

(***************************************************************************)
(* PUT /api/comments/:id                                                   *)
(***************************************************************************)
StartPutComment(r, user, comment_id, content) ==
  /\ CanStart(r)
  /\ LET q == [IdleReq EXCEPT !.route = "putComment", !.user = user,
                               !.comment_id = comment_id, !.content = content]
     IN  reqs' = [reqs EXCEPT ![r] =
           IF ~isAuth(user)
             THEN Finish(q, Response(401, "Unauthorized"))
             ELSE IF content = Undefined
               THEN Finish(q, Response(400, "Content is required"))
               ELSE [q EXCEPT !.pc = "selectComment"]]
  /\ UNCHANGED <<dirVars, dbVars, emitted>>

PutCommentSelect(r, ok) ==
  /\ reqs[r].route = "putComment" /\ reqs[r].pc = "selectComment"
  /\ LET comment == SelectComment(comments, reqs[r].comment_id, ok)
     IN  reqs' = [reqs EXCEPT ![r] =
           IF comment = Null
             THEN Finish(@, Response(404, "Comment not found"))
             ELSE IF comment.user_id # reqs[r].user
               THEN Finish(@, Response(403, "Forbidden"))
               ELSE [@ EXCEPT !.pc = "update", !.post_id = comment.post_id]]
  /\ UNCHANGED <<dirVars, dbVars, emitted>>

PutCommentUpdate(r, ok) ==
  /\ reqs[r].route = "putComment" /\ reqs[r].pc = "update"
  /\ LET id == reqs[r].comment_id
     IN  IF ok /\ comments[id] # Null
           THEN /\ comments' = [comments EXCEPT ![id].content = reqs[r].content]
                /\ reqs' = [reqs EXCEPT ![r] =
                     Finish([@ EXCEPT !.row = "updated"], Response(200, "comment"))]
           ELSE /\ reqs' = [reqs EXCEPT ![r] =
                     Finish(@, Response(500, "Failed to update comment"))]
                /\ UNCHANGED comments
  /\ UNCHANGED <<dirVars, blog_posts, likes, emitted>>

(***************************************************************************)
(* DELETE /api/comments/:id                                                *)
(***************************************************************************)
StartDeleteComment(r, user, comment_id) ==
  /\ CanStart(r)
  /\ LET q == [IdleReq EXCEPT !.route = "deleteComment", !.user = user,
                               !.comment_id = comment_id]
     IN  reqs' = [reqs EXCEPT ![r] =
           IF ~isAuth(user)
             THEN Finish(q, Response(401, "Unauthorized"))
             ELSE [q EXCEPT !.pc = "selectComment"]]
  /\ UNCHANGED <<dirVars, dbVars, emitted>>

DeleteCommentSelect(r, ok) ==
  /\ reqs[r].route = "deleteComment" /\ reqs[r].pc = "selectComment"
  /\ LET comment == SelectComment(comments, reqs[r].comment_id, ok)
     IN  reqs' = [reqs EXCEPT ![r] =
           IF comment = Null
             THEN Finish(@, Response(404, "Comment not found"))
             ELSE IF comment.user_id # reqs[r].user
               THEN Finish(@, Response(403, "Forbidden"))
               ELSE [@ EXCEPT !.pc = "deleteComment", !.post_id = comment.post_id]]
  /\ UNCHANGED <<dirVars, dbVars, emitted>>

DeleteCommentDelete(r, ok) ==
  /\ reqs[r].route = "deleteComment" /\ reqs[r].pc = "deleteComment"
  /\ IF ok
       THEN /\ comments' = [comments EXCEPT ![reqs[r].comment_id] = Null]
            /\ reqs' = [reqs EXCEPT ![r].pc = "decrement", ![r].row = "deleted"]
       ELSE /\ reqs' = [reqs EXCEPT ![r] =
                 Finish(@, Response(500, "Failed to delete comment"))]
            /\ UNCHANGED comments
  /\ UNCHANGED <<dirVars, blog_posts, likes, emitted>>

\* the result of the rpc is not looked at
DeleteCommentDecrement(r, ok) ==
  /\ reqs[r].route = "deleteComment" /\ reqs[r].pc = "decrement"
  /\ blog_posts' = IF ok THEN decrement_comment_count(blog_posts, reqs[r].post_id)
                         ELSE blog_posts
  /\ reqs' = [reqs EXCEPT ![r] =
       Finish([@ EXCEPT !.rpc = IF ok THEN "ok" ELSE "failed"],
              Response(200, "Comment deleted"))]
  /\ UNCHANGED <<dirVars, likes, comments, emitted>>

(***************************************************************************)
(* POST /api/logout: req.logout ends the session, nothing else.  The       *)
(* session is not part of the state: req.user is an input of each request. *)
(***************************************************************************)
\* a logout that also takes the user out of the directory
StartLogoutRemovesEntry(r, user, ok) ==
  /\ CanStart(r)
  /\ onlineUsers' = MapDelete(onlineUsers, user)
  /\ LET q == [IdleReq EXCEPT !.route = "logout", !.user = user,
                               !.entry = EntryOf(onlineUsers, user)]
     IN  reqs' = [reqs EXCEPT ![r] =
           IF ok THEN Finish(q, Response(200, "Logged out"))
                 ELSE Finish(q, Response(500, "Logout failed"))]
  /\ UNCHANGED <<sockets, hist, heap, dbVars, emitted>>

StartLogout(r, user, ok) ==
  /\ CanStart(r)
  /\ LET q == [IdleReq EXCEPT !.route = "logout", !.user = user,
                               !.entry = EntryOf(onlineUsers, user)]
     IN  reqs' = [reqs EXCEPT ![r] =
           IF ok THEN Finish(q, Response(200, "Logged out"))
                 ELSE Finish(q, Response(500, "Logout failed"))]
  /\ UNCHANGED <<dirVars, dbVars, emitted>>

(***************************************************************************)
(* Specifications.                                                         *)
(***************************************************************************)
StateInit ==
  /\ onlineUsers = <<>>
  /\ sockets = [s \in SocketIds |-> "unborn"]
  /\ blog_posts = [p \in PostIds |->
       [user_id |-> PostOwner(p), title |-> 1, like_count |-> 0, comment_count |-> 0]]
  /\ likes = [k \in PostIds \X UserIds |-> 0]
  /\ comments = <<>>
  /\ reqs = [r \in ReqIds |-> IdleReq]
  /\ emitted = <<>>
  /\ heap = 0

Init == StateInit /\ hist = NoHistory

Next ==
  \/ \E s \in SocketIds : Connection(s)
  \/ \E s \in SocketIds, u \in UserIds : Register(s, u)
  \/ \E s \in SocketIds : Disconnect(s)
  \/ \E r \in ReqIds, u \in UserIds \cup {Anonymous}, p \in PostIds \cup {NoSuchPost} :
       StartLike(r, u, p)
  \/ \E r \in ReqIds, ok \in BOOLEAN : LikeSelectPost(r, ok)
  \/ \E r \in ReqIds, ok \in BOOLEAN : LikeSelectLike(r, ok)
  \/ \E r \in ReqIds, ok \in BOOLEAN : LikeDelete(r, ok)
  \/ \E r \in ReqIds, ok \in BOOLEAN : LikeDecrement(r, ok)
  \/ \E r \in ReqIds, ok \in BOOLEAN : LikeInsert(r, ok)
  \/ \E r \in ReqIds, ok \in BOOLEAN : LikeIncrement(r, ok)
  \/ \E r \in ReqIds, u \in UserIds \cup {Anonymous}, p \in PostIds \cup {NoSuchPost},
        c \in {Undefined, 1} : StartComment(r, u, p, c)
  \/ \E r \in ReqIds, ok \in BOOLEAN : CommentSelectPost(r, ok)
  \/ \E r \in ReqIds, ok \in BOOLEAN : CommentInsert(r, ok)
  \/ \E r \in ReqIds, ok \in BOOLEAN : CommentIncrement(r, ok)
  \/ \E r \in ReqIds, u \in UserIds \cup {Anonymous}, ok \in BOOLEAN :
       StartLogout(r, u, ok)

Spec == Init /\ [][Next]_vars

\* the transport handlers alone, with the history of their events
InitDirectory == StateInit /\ hist = HistInit

NextDirectory ==
  \/ \E s \in SocketIds : Connection(s)
  \/ \E s \in SocketIds, u \in UserIds : Register(s, u)
  \/ \E s \in SocketIds : Disconnect(s)

SpecDirectory == InitDirectory /\ [][NextDirectory]_vars

\* like requests sent one after the other: a request starts only when no
\* other request is in flight
Quiet == \A r \in ReqIds : reqs[r].pc \in {"idle", "done"}

NextSequential ==
  \/ \E r \in ReqIds, u \in UserIds \cup {Anonymous}, p \in PostIds \cup {NoSuchPost} :
       Quiet /\ StartLike(r, u, p)
  \/ \E r \in ReqIds, ok \in BOOLEAN : LikeSelectPost(r, ok)
  \/ \E r \in ReqIds, ok \in BOOLEAN : LikeSelectLike(r, ok)
  \/ \E r \in ReqIds, ok \in BOOLEAN : LikeDelete(r, ok)
  \/ \E r \in ReqIds, ok \in BOOLEAN : LikeDecrement(r, ok)
  \/ \E r \in ReqIds, ok \in BOOLEAN : LikeInsert(r, ok)
  \/ \E r \in ReqIds, ok \in BOOLEAN : LikeIncrement(r, ok)

SpecSequential == Init /\ [][NextSequential]_vars

\* the routes on posts and comments, over a database that already holds a
\* like and a comment of user 2 on every post, the owner of post 1 online
InitRoutes ==
  /\ onlineUsers = MapSet(<<>>, PostOwner(1), 1)
  /\ sockets = [s \in SocketIds |-> IF s = 1 THEN "open" ELSE "unborn"]
  /\ blog_posts = [p \in PostIds |->
       [user_id |-> PostOwner(p), title |-> 1, like_count |-> 1, comment_count |-> 1]]
  /\ likes = [k \in PostIds \X UserIds |-> IF k[2] = MaxUsers THEN 1 ELSE 0]
  /\ comments = [p \in PostIds |-> [post_id |-> p, user_id |-> MaxUsers, content |-> 1]]
  /\ reqs = [r \in ReqIds |-> IdleReq]
  /\ emitted = <<>>
  /\ heap = 0
  /\ hist = NoHistory

NextRoutes ==
  \/ \E r \in ReqIds, u \in UserIds \cup {Anonymous}, p \in PostIds \cup {NoSuchPost} :
       StartLike(r, u, p)
  \/ \E r \in ReqIds, ok \in BOOLEAN : LikeSelectPost(r, ok)
  \/ \E r \in ReqIds, ok \in BOOLEAN : LikeSelectLike(r, ok)
  \/ \E r \in ReqIds, ok \in BOOLEAN : LikeDelete(r, ok)
  \/ \E r \in ReqIds, ok \in BOOLEAN : LikeDecrement(r, ok)
  \/ \E r \in ReqIds, ok \in BOOLEAN : LikeInsert(r, ok)
  \/ \E r \in ReqIds, ok \in BOOLEAN : LikeIncrement(r, ok)
  \/ \E r \in ReqIds, u \in UserIds \cup {Anonymous}, p \in PostIds \cup {NoSuchPost},
        c \in {Undefined} \cup Texts : StartComment(r, u, p, c)
  \/ \E r \in ReqIds, ok \in BOOLEAN : CommentSelectPost(r, ok)
  \/ \E r \in ReqIds, ok \in BOOLEAN : CommentInsert(r, ok)
  \/ \E r \in ReqIds, ok \in BOOLEAN : CommentIncrement(r, ok)
  \/ \E r \in ReqIds, u \in UserIds \cup {Anonymous}, p \in PostIds \cup {NoSuchPost},
        t \in {Undefined} \cup Texts : StartPutPost(r, u, p, t)
  \/ \E r \in ReqIds, ok \in BOOLEAN : PutPostSelect(r, ok)
  \/ \E r \in ReqIds, ok \in BOOLEAN : PutPostUpdate(r, ok)
  \/ \E r \in ReqIds, u \in UserIds \cup {Anonymous}, p \in PostIds \cup {NoSuchPost} :
       StartDeletePost(r, u, p)
  \/ \E r \in ReqIds, ok \in BOOLEAN : DeletePostSelect(r, ok)
  \/ \E r \in ReqIds, ok \in BOOLEAN : DeletePostLikes(r, ok)
  \/ \E r \in ReqIds, ok \in BOOLEAN : DeletePostComments(r, ok)
  \/ \E r \in ReqIds, ok \in BOOLEAN : DeletePostRow(r, ok)
  \/ \E r \in ReqIds, u \in UserIds \cup {Anonymous}, c \in 0..MaxComments,
        t \in {Undefined} \cup Texts : StartPutComment(r, u, c, t)
  \/ \E r \in ReqIds, ok \in BOOLEAN : PutCommentSelect(r, ok)
  \/ \E r \in ReqIds, ok \in BOOLEAN : PutCommentUpdate(r, ok)
  \/ \E r \in ReqIds, u \in UserIds \cup {Anonymous}, c \in 0..MaxComments :
       StartDeleteComment(r, u, c)
  \/ \E r \in ReqIds, ok \in BOOLEAN : DeleteCommentSelect(r, ok)
  \/ \E r \in ReqIds, ok \in BOOLEAN : DeleteCommentDelete(r, ok)
  \/ \E r \in ReqIds, ok \in BOOLEAN : DeleteCommentDecrement(r, ok)

SpecRoutes == InitRoutes /\ [][NextRoutes]_vars

\* the four routes that move the counters of a post: like and unlike, add
\* comment, delete comment, on posts as POST /api/posts creates them
NextCounters ==
  \/ \E r \in ReqIds, u \in UserIds \cup {Anonymous}, p \in PostIds \cup {NoSuchPost} :
       StartLike(r, u, p)
  \/ \E r \in ReqIds, ok \in BOOLEAN : LikeSelectPost(r, ok)
  \/ \E r \in ReqIds, ok \in BOOLEAN : LikeSelectLike(r, ok)
  \/ \E r \in ReqIds, ok \in BOOLEAN : LikeDelete(r, ok)
  \/ \E r \in ReqIds, ok \in BOOLEAN : LikeDecrement(r, ok)
  \/ \E r \in ReqIds, ok \in BOOLEAN : LikeInsert(r, ok)
  \/ \E r \in ReqIds, ok \in BOOLEAN : LikeIncrement(r, ok)
  \/ \E r \in ReqIds, u \in UserIds \cup {Anonymous}, p \in PostIds \cup {NoSuchPost},
        c \in {Undefined, 1} : StartComment(r, u, p, c)
  \/ \E r \in ReqIds, ok \in BOOLEAN : CommentSelectPost(r, ok)
  \/ \E r \in ReqIds, ok \in BOOLEAN : CommentInsert(r, ok)
  \/ \E r \in ReqIds, ok \in BOOLEAN : CommentIncrement(r, ok)
  \/ \E r \in ReqIds, u \in UserIds \cup {Anonymous}, c \in 0..MaxComments :
       StartDeleteComment(r, u, c)
  \/ \E r \in ReqIds, ok \in BOOLEAN : DeleteCommentSelect(r, ok)
  \/ \E r \in ReqIds, ok \in BOOLEAN : DeleteCommentDelete(r, ok)
  \/ \E r \in ReqIds, ok \in BOOLEAN : DeleteCommentDecrement(r, ok)

SpecCounters == Init /\ [][NextCounters]_vars

\* the transport handlers, the client sending either shape of payload
NextMessages ==
  \/ \E s \in SocketIds : Connection(s)
  \/ \E s \in SocketIds, u \in UserIds : Register(s, u)
  \/ \E s \in SocketIds, u \in UserIds :
       heap < MaxObjects /\ Register(s, ObjectPayload(heap + 1, u))
  \/ \E s \in SocketIds : Disconnect(s)

SpecMessages == InitDirectory /\ [][NextMessages]_vars

(***************************************************************************)
(* Properties of the presence directory (SpecDirectory).                   *)
(***************************************************************************)
\* C1: last registration wins.  lookup(u) is never a socket other than the
\* one of the most recent 'register' for u; the 'register' just handled is
\* what lookup returns; and as long as no connection has terminated, lookup(u)
\* is exactly the socket of the most recent 'register' for u.
C1_LastRegistrationWins ==
  /\ \A u \in UserIds : MapGet(onlineUsers, u) \in {Undefined, hist.lastRegister[u]}
  /\ hist.lastEvent.type = "register"
       => MapGet(onlineUsers, hist.lastEvent.userId) = hist.lastEvent.socketId
  /\ (\A s \in SocketIds : sockets[s] # "closed")
       => \A u \in UserIds : MapGet(onlineUsers, u) = hist.lastRegister[u]

\* a user registers again, on another socket, while another user is registered
C1_Witness ==
  /\ hist.lastEvent.type = "register"
  /\ MapGet(hist.before, hist.lastEvent.userId) \notin {Undefined, hist.lastEvent.socketId}
  /\ \E u \in UserIds : u # hist.lastEvent.userId /\ MapGet(hist.before, u) # Undefined
  /\ MapGet(onlineUsers, hist.lastEvent.userId) = hist.lastEvent.socketId

\* C2: a socket id is the value of at most one user identity.
C2_HandleOfOneUser ==
  \A i, j \in 1..Len(onlineUsers) :
    onlineUsers[i].socketId = onlineUsers[j].socketId => i = j

\* C3: no entry of the directory holds a connection that has terminated.
C3_NoTerminatedHandle ==
  \A s \in Handles(onlineUsers) : sockets[s] # "closed"

\* C4: the disconnect of a connection that no entry holds leaves every
\* lookup, and the directory as a whole, as it was.
C4_DisconnectUnregisteredNoOp ==
  (/\ hist.lastEvent.type = "disconnect"
   /\ hist.lastEvent.socketId \notin Handles(hist.before))
    => /\ onlineUsers = hist.before
       /\ \A u \in UserIds : MapGet(onlineUsers, u) = MapGet(hist.before, u)

\* such a disconnect while the directory holds an entry; the connection had
\* never registered, or its entry had been taken over by another connection
C4_Witness ==
  /\ hist.lastEvent.type = "disconnect"
  /\ hist.lastEvent.socketId \notin Handles(hist.before)
  /\ hist.before # <<>>
  /\ onlineUsers = hist.before

\* C5: the disconnect of a superseded connection does not take the user
\* offline.  Whenever the most recent 'register' of u was on a connection
\* that is still open, lookup(u) is that connection; and lookup(u) turns
\* absent only by the disconnect of the connection it held, which does turn
\* it absent when u's entry is the only one holding that connection.
C5_SupersededDisconnectKeepsUser ==
  /\ \A u \in UserIds :
       (hist.lastRegister[u] # Undefined /\ sockets[hist.lastRegister[u]] = "open")
         => MapGet(onlineUsers, u) = hist.lastRegister[u]
  /\ \A u \in UserIds :
       (MapGet(hist.before, u) # Undefined /\ MapGet(onlineUsers, u) = Undefined)
         => /\ hist.lastEvent.type = "disconnect"
            /\ hist.lastEvent.socketId = MapGet(hist.before, u)
  /\ \A u \in UserIds :
       (/\ hist.lastEvent.type = "disconnect"
        /\ \A v \in UserIds :
             MapGet(hist.before, v) = hist.lastEvent.socketId <=> v = u)
         => MapGet(onlineUsers, u) = Undefined

\* u registered on A, then on B; A has just disconnected and u is still on B
C5_Witness ==
  /\ hist.lastEvent.type = "disconnect"
  /\ \E u \in UserIds :
       /\ <<u, hist.lastEvent.socketId>> \in hist.registered
       /\ hist.lastRegister[u] # hist.lastEvent.socketId
       /\ sockets[hist.lastRegister[u]] = "open"
       /\ MapGet(onlineUsers, u) = hist.lastRegister[u]

\* C13: the directory starts empty and an entry exists only as the result
\* of a 'register'.  lookup(u) is absent while no 'register' for u has
\* occurred; every entry is a <<user, socket>> pair that was registered; a
\* connection being established changes nothing; and an absent lookup(u)
\* turns present only by a 'register' for u.
C13_EntryOnlyByRegister ==
  /\ hist.lastEvent.type = "none" => onlineUsers = <<>>
  /\ \A u \in UserIds :
       hist.lastRegister[u] = Undefined => MapGet(onlineUsers, u) = Undefined
  /\ \A i \in 1..Len(onlineUsers) :
       <<onlineUsers[i].userId, onlineUsers[i].socketId>> \in hist.registered
  /\ hist.lastEvent.type = "connection" => onlineUsers = hist.before
  /\ \A u \in UserIds :
       (MapGet(hist.before, u) = Undefined /\ MapGet(onlineUsers, u) # Undefined)
         => /\ hist.lastEvent.type = "register"
            /\ hist.lastEvent.userId = u

\* a connection has just been established; a user whose entry was removed
\* has not registered again and is absent, another user never registered
C13_Witness ==
  /\ hist.lastEvent.type = "connection"
  /\ \E u \in UserIds :
       /\ hist.lastRegister[u] # Undefined
       /\ sockets[hist.lastRegister[u]] = "closed"
       /\ MapGet(onlineUsers, u) = Undefined
  /\ \E u \in UserIds : hist.lastRegister[u] = Undefined
  /\ \A s \in Handles(onlineUsers) : s # hist.lastEvent.socketId

\* C14: register is idempotent and always succeeds.  A 'register' of u on c
\* when u's entry already is c leaves the directory as it was; any
\* 'register' of u on c ends with lookup(u) = c and every other user's
\* lookup as before; and on an open connection the handler can always run.
C14_RegisterIdempotent ==
  /\ (/\ hist.lastEvent.type = "register"
      /\ MapGet(hist.before, hist.lastEvent.userId) = hist.lastEvent.socketId)
       => onlineUsers = hist.before
  /\ hist.lastEvent.type = "register"
       => /\ MapGet(onlineUsers, hist.lastEvent.userId) = hist.lastEvent.socketId
          /\ Len(onlineUsers) <= Len(hist.before) + 1
          /\ \A v \in UserIds \ {hist.lastEvent.userId} :
               MapGet(onlineUsers, v) = MapGet(hist.before, v)
  /\ \A s \in SocketIds, u \in UserIds :
       sockets[s] = "open" => ENABLED Register(s, u)

\* the same 'register' has just been repeated while another user is present
C14_Witness ==
  /\ hist.lastEvent.type = "register"
  /\ MapGet(hist.before, hist.lastEvent.userId) = hist.lastEvent.socketId
  /\ Len(hist.before) = 2
  /\ onlineUsers = hist.before

(***************************************************************************)
(* Properties of the notifications (Spec).                                 *)
(***************************************************************************)
\* the emit calls made by request r
CallsOf(r) == {i \in 1..Len(emitted) : emitted[i].req = r}

\* the like or comment of request r went through: its row is in the table
\* and the handler has ended
Succeeded(r) == reqs[r].pc = "done" /\ reqs[r].row = "inserted"

\* the owner of the post that request r is about
OwnerOf(r) == PostOwner(reqs[r].post_id)

\* the payload the handler builds for the action of request r
PayloadOf(r) ==
  [message |-> <<reqs[r].user,
                 IF reqs[r].route = "like" THEN "liked your post"
                                           ELSE "commented on your post">>,
   type |-> reqs[r].route,
   postId |-> reqs[r].post_id]

\* the success response of the route of request r
SuccessOf(r) ==
  IF reqs[r].route = "like" THEN Response(200, "liked: true")
                            ELSE Response(200, "comment")

\* C6: when a like or comment by another user succeeds and the post owner
\* has entry c at that moment, exactly one 'notification' is emitted, to c
\* and nowhere else, with the payload of that action.
C6_OneNotificationToOwnerEntry ==
  \A r \in ReqIds :
    (/\ Succeeded(r)
     /\ reqs[r].user # OwnerOf(r)
     /\ reqs[r].entry # Undefined)
      => /\ Cardinality(CallsOf(r)) = 1
         /\ \A i \in CallsOf(r) :
              /\ emitted[i].to = reqs[r].entry
              /\ emitted[i].event = "notification"
              /\ emitted[i].payload = PayloadOf(r)

\* a like and a comment by another user, the owner and the acting user being
\* registered on different sockets
C6_Witness ==
  /\ \E r \in ReqIds :
       /\ Succeeded(r) /\ reqs[r].route = "like"
       /\ reqs[r].user # OwnerOf(r)
       /\ reqs[r].entry # Undefined
       /\ EntryOf(onlineUsers, reqs[r].user) \notin {Undefined, reqs[r].entry}
       /\ Cardinality(CallsOf(r)) = 1
  /\ \E r \in ReqIds :
       /\ Succeeded(r) /\ reqs[r].route = "comment"
       /\ reqs[r].user # OwnerOf(r)
       /\ reqs[r].entry # Undefined
       /\ Cardinality(CallsOf(r)) = 1

\* C7: when a like or comment succeeds and the post owner has no entry at
\* that moment, the request emits nothing, then or later, and it ends with
\* the success response; every emit call there is belongs to a request that
\* found an entry, so nothing is delivered on a later 'register'.
C7_AbsentOwnerSilentDrop ==
  /\ \A r \in ReqIds :
       (Succeeded(r) /\ reqs[r].entry = Undefined)
         => /\ CallsOf(r) = {}
            /\ reqs[r].res = SuccessOf(r)
  /\ \A i \in 1..Len(emitted) :
       /\ reqs[emitted[i].req].entry # Undefined
       /\ emitted[i].to = reqs[emitted[i].req].entry
  /\ Len(emitted) <= Cardinality({r \in ReqIds : Succeeded(r)})

\* a like by another user met no entry of the owner; the owner has
\* registered since and nothing has been emitted
C7_Witness ==
  \E r \in ReqIds :
    /\ Succeeded(r)
    /\ reqs[r].user # OwnerOf(r)
    /\ reqs[r].entry = Undefined
    /\ EntryOf(onlineUsers, OwnerOf(r)) # Undefined
    /\ sockets[EntryOf(onlineUsers, OwnerOf(r))] = "open"
    /\ emitted = <<>>
    /\ reqs[r].res.status = 200

\* C8: no self-notification.  Every emit call belongs to a request whose
\* acting user is not the owner of the post.
C8_NoSelfNotification ==
  /\ \A i \in 1..Len(emitted) :
       reqs[emitted[i].req].user # OwnerOf(emitted[i].req)
  /\ \A r \in ReqIds :
       (reqs[r].post_id \in PostIds /\ reqs[r].user = OwnerOf(r)) => CallsOf(r) = {}

\* the owner, registered on an open socket, liked and commented on her own
\* post and nothing was emitted
C8_Witness ==
  /\ \E r \in ReqIds :
       /\ Succeeded(r) /\ reqs[r].route = "like"
       /\ reqs[r].user = OwnerOf(r)
       /\ reqs[r].entry # Undefined
       /\ CallsOf(r) = {}
  /\ \E r \in ReqIds :
       /\ Succeeded(r) /\ reqs[r].route = "comment"
       /\ reqs[r].user = OwnerOf(r)
       /\ reqs[r].entry # Undefined
       /\ CallsOf(r) = {}

\* C9: a notification is emitted only by a request that ends in the success
\* response and whose database mutation, the row insert and the counter
\* update, succeeded.
C9_NotifyOnlyAfterMutation ==
  \A i \in 1..Len(emitted) :
    /\ reqs[emitted[i].req].res.status = 200
    /\ reqs[emitted[i].req].row = "inserted"
    /\ reqs[emitted[i].req].rpc = "ok"

\* C10: notify never fails the request and is not awaited.  A like or
\* comment whose row went in ends with the same success response whatever
\* the owner's entry (a socket, none, a socket that has terminated), and the
\* request has ended in the state in which its emit call appears.
C10_NotifyNeverFailsCaller ==
  /\ \A r \in ReqIds : Succeeded(r) => reqs[r].res = SuccessOf(r)
  /\ \A i \in 1..Len(emitted) : reqs[emitted[i].req].pc = "done"

\* a like by another user whose owner's entry is a socket that has terminated
C10_Witness ==
  \E r \in ReqIds :
    /\ Succeeded(r) /\ reqs[r].route = "like"
    /\ reqs[r].user # OwnerOf(r)
    /\ reqs[r].rpc = "ok"
    /\ reqs[r].entry # Undefined
    /\ sockets[reqs[r].entry] = "closed"
    /\ reqs[r].res = Response(200, "liked: true")

(***************************************************************************)
(* Properties of the 'register' message (SpecMessages).                    *)
(***************************************************************************)
\* C11 as claimed: a 'register' message of shape { userId } on connection c
\* makes lookup(userId), as the like and comment handlers do it, return c.
C11_ObjectMessageCreatesEntry ==
  (hist.lastEvent.type = "register" /\ IsObject(hist.lastEvent.userId))
    => MapGet(onlineUsers, UserIdField(hist.lastEvent.userId)) = hist.lastEvent.socketId

\* C11 as amended: a 'register' message whose payload is the user id itself
\* makes lookup(userId) return c; a message of shape { userId } creates an
\* entry keyed by the object and leaves lookup(userId) as it was.
C11_BareIdMessageCreatesEntry ==
  hist.lastEvent.type = "register"
    => IF IsObject(hist.lastEvent.userId)
         THEN /\ MapGet(onlineUsers, hist.lastEvent.userId) = hist.lastEvent.socketId
              /\ MapGet(onlineUsers, UserIdField(hist.lastEvent.userId))
                   = MapGet(hist.before, UserIdField(hist.lastEvent.userId))
         ELSE MapGet(onlineUsers, hist.lastEvent.userId) = hist.lastEvent.socketId

\* both shapes have been sent for the same user: the id on one connection,
\* then the object on another, and lookup still returns the first
C11_Witness ==
  /\ hist.lastEvent.type = "register"
  /\ IsObject(hist.lastEvent.userId)
  /\ MapGet(onlineUsers, UserIdField(hist.lastEvent.userId))
       \notin {Undefined, hist.lastEvent.socketId}
  /\ MapGet(onlineUsers, hist.lastEvent.userId) = hist.lastEvent.socketId

\* C12: HTTP logout does not touch the directory.  The step of a logout
\* request leaves the directory, the sockets and the emit calls as they are.
C12_LogoutKeepsDirectory ==
  [][(\E r \in ReqIds : reqs[r].pc = "idle" /\ reqs'[r].route = "logout")
        => /\ onlineUsers' = onlineUsers
           /\ sockets' = sockets
           /\ emitted' = emitted]_vars

\* user u logged out while mapped to an open connection c; a later like by
\* another user on u's post found u still mapped to c and was emitted to c
C12_Witness ==
  \E r1, r2 \in ReqIds :
    /\ r1 < r2
    /\ reqs[r1].route = "logout" /\ reqs[r1].res = Response(200, "Logged out")
    /\ reqs[r1].user \in UserIds
    /\ reqs[r1].entry # Undefined
    /\ Succeeded(r2) /\ reqs[r2].route = "like"
    /\ OwnerOf(r2) = reqs[r1].user
    /\ reqs[r2].entry = reqs[r1].entry
    /\ \E i \in CallsOf(r2) : emitted[i].to = reqs[r1].entry
    /\ sockets[reqs[r1].entry] = "open"
    /\ EntryOf(onlineUsers, reqs[r1].user) = reqs[r1].entry

\* C15: the lookup and the emit are one step of the event loop.  In the step
\* that adds an emit call, the directory and the sockets do not change, the
\* call goes to the socket the directory holds for the post's owner in that
\* very state, and the request ends in that step.
C15_LookupAndEmitAtomic ==
  [][Len(emitted') > Len(emitted)
       => LET call == emitted'[Len(emitted')]
          IN  /\ Len(emitted') = Len(emitted) + 1
              /\ onlineUsers' = onlineUsers
              /\ sockets' = sockets
              /\ call.to = EntryOf(onlineUsers, OwnerOf(call.req))
              /\ call.to = EntryOf(onlineUsers', OwnerOf(call.req))
              /\ reqs[call.req].pc = "increment"
              /\ reqs'[call.req].pc = "done"]_vars

\* a like and a comment were emitted to the owner's socket although the
\* owner's entry changed between the row insert and the end of the handler
C15_Witness ==
  /\ \E r \in ReqIds :
       /\ Succeeded(r) /\ reqs[r].route = "like"
       /\ reqs[r].moved
       /\ \E i \in CallsOf(r) : emitted[i].to = reqs[r].entry
  /\ \E r \in ReqIds :
       /\ Succeeded(r) /\ reqs[r].route = "comment"
       /\ reqs[r].moved
       /\ \E i \in CallsOf(r) : emitted[i].to = reqs[r].entry

\* C17: only the like branch notifies.  A like request that took the unlike
\* branch has no emit call, whatever the owner's entry, and every emit call
\* of a like request belongs to one that inserted its row.
C17_UnlikeNeverNotifies ==
  /\ \A r \in ReqIds :
       (reqs[r].route = "like" /\ reqs[r].pc \in {"deleteLike", "decrement"})
         => CallsOf(r) = {}
  /\ \A r \in ReqIds :
       (reqs[r].row = "deleted" \/ reqs[r].res = Response(200, "liked: false"))
         => CallsOf(r) = {}
  /\ \A i \in 1..Len(emitted) :
       reqs[emitted[i].req].route = "like" => reqs[emitted[i].req].row = "inserted"

\* another user unliked the post while its owner was on an open socket
C17_Witness ==
  \E r \in ReqIds :
    /\ reqs[r].route = "like" /\ reqs[r].pc = "done"
    /\ reqs[r].row = "deleted"
    /\ reqs[r].res = Response(200, "liked: false")
    /\ reqs[r].user # OwnerOf(r)
    /\ reqs[r].entry \notin {Undefined, NotReached}
    /\ sockets[reqs[r].entry] = "open"
    /\ CallsOf(r) = {}

(***************************************************************************)
(* Properties of the like toggle (SpecSequential).                         *)
(***************************************************************************)
\* C16: POST /api/posts/:id/like is a toggle.  The first like request of a
\* user on a post, answered 200, has added the like and answered
\* { liked: true }; a second one after it, answered 200, has removed the like
\* and answered { liked: false }, and the like rows and like_count of the post
\* are as they were before the two.
C16_LikeToggles ==
  \A r1, r2 \in ReqIds :
    (/\ r1 < r2
     /\ reqs[r1].route = "like" /\ reqs[r1].pc = "done"
     /\ reqs[r1].res.status = 200
     /\ \A r \in ReqIds \ {r1, r2} : reqs[r].pc = "idle")
      => LET key == <<reqs[r1].post_id, reqs[r1].user>>
             post == blog_posts[reqs[r1].post_id]
         IN  /\ reqs[r1].res = Response(200, "liked: true")
             /\ reqs[r2].pc = "idle" => likes[key] = 1 /\ post.like_count = 1
             /\ (/\ reqs[r2].route = "like" /\ reqs[r2].pc = "done"
                 /\ reqs[r2].res.status = 200
                 /\ <<reqs[r2].post_id, reqs[r2].user>> = key)
                  => /\ reqs[r2].res = Response(200, "liked: false")
                     /\ likes[key] = 0
                     /\ post.like_count = 0

(***************************************************************************)
(* Properties of the routes on posts and comments (SpecRoutes).            *)
(***************************************************************************)
\* the post or the comment request r names is there and is not of its user
NotItsOwner(q, posts, cm) ==
  /\ isAuth(q.user)
  /\ \/ /\ q.route \in {"putPost", "deletePost"}
        /\ q.post_id \in PostIds
        /\ posts[q.post_id] # Null
        /\ posts[q.post_id].user_id # q.user
     \/ /\ q.route \in {"putComment", "deleteComment"}
        /\ q.comment_id \in 1..Len(cm)
        /\ cm[q.comment_id] # Null
        /\ cm[q.comment_id].user_id # q.user

\* the request that takes the step
Acts(r) == reqs'[r] # reqs[r]

\* C18 as stated: an update or delete request for a post or a comment by an
\* authenticated user who is not its owner is answered 403 and has changed
\* nothing.
C18_NonOwnerGets403 ==
  \A r \in ReqIds :
    (reqs[r].pc = "done" /\ NotItsOwner(reqs[r], blog_posts, comments))
      => reqs[r].res.status = 403 /\ reqs[r].row = "none"

\* C18: only the creator changes or removes a resource.  An update or delete
\* request for a post or a comment by an authenticated user who is not its
\* owner never gets past the lookup: it changes no table, and it is answered
\* 403, or 404 when the lookup fails, or 400 when it is a comment update
\* without content.  The title or the existence of a post changes only in a
\* step of an update or delete request of the post's owner; the content or
\* the existence of a comment changes only in a step of an update or delete
\* request of the comment's owner, or of the delete request of the owner of
\* its post; a like goes only with an unlike of its user or with the delete
\* request of the owner of its post.
C18_OnlyOwnerModifies ==
  [][/\ \A r \in ReqIds :
          (Acts(r) /\ NotItsOwner(reqs'[r], blog_posts, comments))
            => /\ UNCHANGED dbVars
               /\ reqs'[r].row = "none"
               /\ reqs'[r].pc \in {"selectPost", "selectComment", "done"}
               /\ reqs'[r].pc = "done"
                    => \/ reqs'[r].res.status = 403
                       \/ reqs'[r].res.status = 404 /\ reqs[r].pc # "idle"
                       \/ /\ reqs'[r].res.status = 400
                          /\ reqs'[r].route = "putComment"
                          /\ reqs'[r].content = Undefined
     /\ \A p \in PostIds :
          (/\ blog_posts[p] # Null
           /\ \/ blog_posts'[p] = Null
              \/ blog_posts'[p].title # blog_posts[p].title)
            => \E r \in ReqIds :
                 /\ Acts(r)
                 /\ reqs[r].route \in {"putPost", "deletePost"}
                 /\ reqs[r].post_id = p
                 /\ reqs[r].user = blog_posts[p].user_id
     /\ \A c \in 1..Len(comments) :
          (/\ comments[c] # Null
           /\ \/ comments'[c] = Null
              \/ comments'[c].content # comments[c].content)
            => \E r \in ReqIds :
                 /\ Acts(r)
                 /\ \/ /\ reqs[r].route \in {"putComment", "deleteComment"}
                       /\ reqs[r].comment_id = c
                       /\ reqs[r].user = comments[c].user_id
                    \/ /\ reqs[r].route = "deletePost"
                       /\ reqs[r].post_id = comments[c].post_id
                       /\ reqs[r].user = PostOwner(comments[c].post_id)
     /\ \A k \in DOMAIN likes :
          likes'[k] < likes[k]
            => \E r \in ReqIds :
                 /\ Acts(r)
                 /\ reqs[r].post_id = k[1]
                 /\ \/ reqs[r].route = "like" /\ reqs[r].user = k[2]
                    \/ reqs[r].route = "deletePost" /\ reqs[r].user = PostOwner(k[1])
    ]_vars

\* a request of a user who is not the owner was answered 403, and a request
\* of the owner has updated or deleted the same kind of resource
C18_Witness ==
  \E r1, r2 \in ReqIds :
    /\ reqs[r1].pc = "done" /\ reqs[r1].res.status = 403
    /\ NotItsOwner(reqs[r1], blog_posts, comments)
    /\ reqs[r2].pc = "done" /\ reqs[r2].route = reqs[r1].route
    /\ reqs[r2].row = "updated"
    /\ reqs[r2].user # reqs[r1].user

\* C19: deleting a post deletes its comments and likes.  Once the owner's
\* DELETE /api/posts/:id has answered 'Post deleted', no row of likes and no
\* row of comments refers to that post, whatever like and comment requests
\* for the post were in flight.
C19_DeletePostRemovesRelated ==
  \A r \in ReqIds :
    (/\ reqs[r].route = "deletePost"
     /\ reqs[r].pc = "done"
     /\ reqs[r].res = Response(200, "Post deleted"))
      => /\ \A u \in UserIds : likes[<<reqs[r].post_id, u>>] = 0
         /\ \A c \in 1..Len(comments) :
              comments[c] = Null \/ comments[c].post_id # reqs[r].post_id

\* the routes registered with isAuth that are part of the model
AuthRoutes == {"like", "comment", "putPost", "deletePost", "putComment", "deleteComment"}

\* C20: isAuth rejects an unauthenticated request before any handler step.
\* A request without a logged-in user on a route guarded by isAuth takes one
\* step only: it is answered 401 'Unauthorized' as it arrives, and that step
\* changes no table, changes neither the directory nor a socket, and emits
\* nothing.
C20_UnauthenticatedRejected ==
  [][\A r \in ReqIds :
       (Acts(r) /\ reqs'[r].user = Anonymous /\ reqs'[r].route \in AuthRoutes)
         => /\ reqs[r].pc = "idle"
            /\ reqs'[r].pc = "done"
            /\ reqs'[r].res = Response(401, "Unauthorized")
            /\ reqs'[r].row = "none"
            /\ reqs'[r].rpc = "none"
            /\ UNCHANGED <<onlineUsers, sockets, blog_posts, likes, comments, emitted>>
    ]_vars

\* an unauthenticated request was answered 401 on a route on which the
\* request of a logged-in user went through and wrote its row
C20_Witness ==
  \E r1, r2 \in ReqIds :
    /\ reqs[r1].user = Anonymous /\ reqs[r1].route \in AuthRoutes
    /\ reqs[r1].pc = "done" /\ reqs[r1].res.status = 401
    /\ reqs[r2].route = reqs[r1].route /\ reqs[r2].user # Anonymous
    /\ reqs[r2].pc = "done" /\ reqs[r2].res.status = 200
    /\ reqs[r2].row # "none"

(***************************************************************************)
(* Properties of the like rows and of the counters.                        *)
(***************************************************************************)
\* the 'like' notifications emitted for the likes of user u on post p
LikeCallsOf(p, u) ==
  {i \in 1..Len(emitted) :
     /\ emitted[i].payload.type = "like"
     /\ emitted[i].payload.postId = p
     /\ emitted[i].payload.message[1] = u}

\* the like requests of user u on post p that have removed the like
UnlikesOf(p, u) ==
  {r \in ReqIds :
     /\ reqs[r].route = "like" /\ reqs[r].row = "deleted"
     /\ reqs[r].post_id = p /\ reqs[r].user = u}

\* C21: at most one like per user per post.  The likes table never holds
\* more than one row for a pair of post and user, also when two like
\* requests of the same user for the same post interleave their database
\* steps; and the owner is sent at most one 'like' notification for the pair
\* beyond one for each unlike that came in between.
C21_OneLikePerUserPerPost ==
  \A p \in PostIds, u \in UserIds :
    /\ likes[<<p, u>>] <= 1
    /\ Cardinality(LikeCallsOf(p, u)) <= 1 + Cardinality(UnlikesOf(p, u))

\* the number of rows of likes for post p, over the users 1..n
RECURSIVE LikeRowsUpTo(_, _, _)
LikeRowsUpTo(lk, p, n) ==
  IF n = 0 THEN 0 ELSE lk[<<p, n>>] + LikeRowsUpTo(lk, p, n - 1)

LikeRows(lk, p) == LikeRowsUpTo(lk, p, MaxUsers)

\* the number of rows of comments for post p
CommentRows(cm, p) ==
  Cardinality({c \in 1..Len(cm) : cm[c] # Null /\ cm[c].post_id = p})

\* C22: counter consistency.  A post starts with like_count 0 and
\* comment_count 0, and whenever no request is in flight the like_count of a
\* post is the number of its like rows and its comment_count the number of
\* its comment rows, after any interleaving of like, unlike, add-comment and
\* delete-comment requests.
C22_CountersMatchRows ==
  /\ (\A r \in ReqIds : reqs[r].pc = "idle")
       => \A p \in PostIds :
            blog_posts[p].like_count = 0 /\ blog_posts[p].comment_count = 0
  /\ Quiet
       => \A p \in PostIds :
            /\ blog_posts[p].like_count = LikeRows(likes, p)
            /\ blog_posts[p].comment_count = CommentRows(comments, p)
====
